---- MODULE Spec2Model ----
(***************************************************************************)
(* Order manager of goodmetrics (src/src/goodmetrics/core/order.py).       *)
(*                                                                         *)
(* An order object is identified by its uuid4 identifier, which never      *)
(* changes; a dict keyed by order.identifier whose value is the order      *)
(* object is therefore modelled by the sequence of its keys in insertion   *)
(* order, and the fields of the object are read through `orders`.          *)
(*                                                                         *)
(* The guards `isinstance(order, Type[OrderABC])` are modelled by the      *)
(* contract their docstrings state ("TypeError: If the order is not an     *)
(* instance of OrderABC"): every argument drawn below is an order, so the  *)
(* guard lets it pass.  (Evaluated literally by CPython, isinstance with   *)
(* the subscripted generic Type[OrderABC] raises TypeError for every       *)
(* argument, which would leave the manager with no behaviour at all.)      *)
(***************************************************************************)
EXTENDS Integers, Sequences, FiniteSets, TLC

\* Number of order objects the caller holds.
NumOrders == 2
\* Number of calls (manager methods and order setters) made on the manager
\* and its orders after OrderManager(initial_orders) has returned.
MaxOps == 2

Ids == 1..NumOrders

\* Optional[Decimal]: None is <<>>, a Decimal d is <<d>>.
None == <<>>
Some(d) == <<d>>
\* trigger_price arguments of the constructor: absent, or a price.
CtorArgs == {None, Some(1)}
\* Values handed to the trigger_price setter: None, a non-positive Decimal,
\* a positive Decimal.
DecimalArgs == {None, Some(0), Some(1)}

VARIABLES
  orders,                          \* id -> fields of the order object
  order_mapper,                    \* keys of _order_mapper, insertion order
  conditional_order_mapper,        \* keys of _conditional_order_mapper
  mutually_exclusive_order_mapper, \* _mutually_exclusive_order_mapper
  last,                            \* the last call, its result, the manager before it
  nops,                            \* calls made since the manager was built
  hist,                            \* whether a trigger price has ever been set,
                                   \* and the order objects made before the last call
  trader                           \* the locals of Trader.run

vars == <<orders, order_mapper, conditional_order_mapper,
          mutually_exclusive_order_mapper, last, nops, hist, trader>>

Range(s) == {s[i] : i \in 1..Len(s)}

\* d[k] = v on a dict whose keys are `keys`: a new key goes last, an existing
\* key keeps its place.
DictSet(keys, k) == IF k \in Range(keys) THEN keys ELSE Append(keys, k)

\* del d[k]
DictDel(keys, k) == SelectSeq(keys, LAMBDA x : x # k)

\* del d[k] on the identifier -> identifier dict
MapDel(f, k) == [x \in (DOMAIN f) \ {k} |-> f[x]]

\* d[k] = v on the identifier -> identifier dict
MapSet(f, k, v) == [x \in (DOMAIN f) \cup {k} |-> IF x = k THEN v ELSE f[x]]

EmptyMap == [x \in {} |-> 0]

\* The three mappings of the manager as one value.
Manager == [om   |-> order_mapper,
            com  |-> conditional_order_mapper,
            meom |-> mutually_exclusive_order_mapper]

EmptyManager == [om |-> <<>>, com |-> <<>>, meom |-> EmptyMap]

\* What a call gives back: the manager after it, "ok" or the exception raised,
\* the returned list (<<>> when the method returns None or raises), and the
\* orders a protocol was asked about, in the order of asking.
Outcome(m, result, ret) ==
  [m |-> m, result |-> result, ret |-> ret, asked |-> <<>>]

(***************************************************************************)
(* OrderBase                                                               *)
(***************************************************************************)

\* OrderBase.__init__: stores its arguments unchecked; _is_conditional is
\* False whatever trigger_price is.  MarketOrder and LimitOrder pass their
\* arguments on to it and differ from it in __repr__ and __str__ only.
OrderBase(size, side, price, tp_price, sl_price, trigger_price, reduce_only) ==
  [size           |-> size,
   side           |-> side,
   price          |-> price,
   tp_price       |-> tp_price,
   sl_price       |-> sl_price,
   trigger_price  |-> trigger_price,
   reduce_only    |-> reduce_only,
   is_conditional |-> FALSE]

\* LimitOrder(size=, side=, price=, reduce_only=): the other arguments take
\* their defaults.
LimitOrder(size, side, price, reduce_only) ==
  OrderBase(size, side, price, None, None, None, reduce_only)

\* The size setter that stores the value before it looks at it.
size_setter_assign_first(order, value) ==
  [order  |-> [order EXCEPT !.size = value],
   result |-> IF value <= 0 THEN "ValueError" ELSE "ok"]

\* size setter
size_setter(order, value) ==
  IF value <= 0
    THEN [order |-> order, result |-> "ValueError"]
    ELSE [order |-> [order EXCEPT !.size = value], result |-> "ok"]

\* side setter
side_setter(order, value) ==
  IF value \notin {"BUY/LONG", "SELL/SHORT"}
    THEN [order |-> order, result |-> "ValueError"]
    ELSE [order |-> [order EXCEPT !.side = value], result |-> "ok"]

\* price setter
price_setter(order, value) ==
  IF value # None /\ value[1] <= 0
    THEN [order |-> order, result |-> "ValueError"]
    ELSE [order |-> [order EXCEPT !.price = value], result |-> "ok"]

\* tp_price setter
tp_price_setter(order, value) ==
  IF value # None /\ value[1] <= 0
    THEN [order |-> order, result |-> "ValueError"]
    ELSE [order |-> [order EXCEPT !.tp_price = value], result |-> "ok"]

\* sl_price setter
sl_price_setter(order, value) ==
  IF value # None /\ value[1] <= 0
    THEN [order |-> order, result |-> "ValueError"]
    ELSE [order |-> [order EXCEPT !.sl_price = value], result |-> "ok"]

\* reduce_only setter
reduce_only_setter(order, value) ==
  [order |-> [order EXCEPT !.reduce_only = value], result |-> "ok"]

\* trigger_price setter: the order after it, and the result.
trigger_price_setter(order, value) ==
  IF value # None /\ value[1] <= 0
    THEN [order |-> order, result |-> "ValueError"]
    ELSE [order  |-> [order EXCEPT
                        !.trigger_price  = value,
                        !.is_conditional = IF value # None THEN TRUE
                                           ELSE order.is_conditional],
          result |-> "ok"]

\* is_conditional setter
is_conditional_setter(order, value) ==
  [order |-> [order EXCEPT !.is_conditional = value], result |-> "ok"]

(***************************************************************************)
(* OrderManager                                                            *)
(***************************************************************************)

add_to_order_mapper(m, id) ==
  IF orders[id].is_conditional
    THEN Outcome(m, "ValueError", <<>>)
    ELSE Outcome([m EXCEPT !.om = DictSet(m.om, id)], "ok", <<>>)

add_to_conditional_order_mapper(m, id) ==
  IF ~orders[id].is_conditional
    THEN Outcome(m, "ValueError", <<>>)
    ELSE Outcome([m EXCEPT !.com = DictSet(m.com, id)], "ok", <<>>)

\* The removal that passes over an absent identifier in silence.
remove_from_order_mapper_silent(m, id) ==
  Outcome([m EXCEPT !.om = DictDel(m.om, id)], "ok", <<>>)

remove_from_order_mapper(m, id) ==
  IF id \in Range(m.om)
    THEN Outcome([m EXCEPT !.om = DictDel(m.om, id)], "ok", <<>>)
    ELSE Outcome(m, "KeyError", <<>>)

remove_from_conditional_order_mapper(m, id) ==
  IF id \in Range(m.com)
    THEN Outcome([m EXCEPT !.com = DictDel(m.com, id)], "ok", <<>>)
    ELSE Outcome(m, "KeyError", <<>>)

\* OrderManager.__init__: the loop over initial_orders, from the empty manager.
RECURSIVE init_loop(_, _)
init_loop(m, initial_orders) ==
  IF initial_orders = <<>>
    THEN Outcome(m, "ok", <<>>)
    ELSE LET id == Head(initial_orders)
             r  == IF ~orders[id].is_conditional
                     THEN add_to_order_mapper(m, id)
                     ELSE add_to_conditional_order_mapper(m, id)
         IN  IF r.result # "ok" THEN r
             ELSE init_loop(r.m, Tail(initial_orders))

\* The relationship added after looking up the first order only.
add_mutually_exclusive_relationship_first_only(m, id1, id2) ==
  IF id1 \notin Range(m.om) /\ id1 \notin Range(m.com)
    THEN Outcome(m, "KeyError", <<>>)
  ELSE Outcome([m EXCEPT !.meom = MapSet(MapSet(m.meom, id1, id2), id2, id1)],
               "ok", <<>>)

add_mutually_exclusive_relationship(m, id1, id2) ==
  IF id1 \notin Range(m.om) /\ id1 \notin Range(m.com)
    THEN Outcome(m, "KeyError", <<>>)
  ELSE IF id2 \notin Range(m.om) /\ id2 \notin Range(m.com)
    THEN Outcome(m, "KeyError", <<>>)
  ELSE Outcome([m EXCEPT !.meom = MapSet(MapSet(m.meom, id1, id2), id2, id1)],
               "ok", <<>>)

\* The second del raises KeyError when order1 is order2: the first del has
\* already taken the entry away.
remove_mutually_exclusive_relationship(m, id1, id2) ==
  IF id1 \notin DOMAIN m.meom THEN Outcome(m, "KeyError", <<>>)
  ELSE IF id2 \notin DOMAIN m.meom THEN Outcome(m, "KeyError", <<>>)
  ELSE LET m1 == [m EXCEPT !.meom = MapDel(m.meom, id1)]
       IN  IF id2 \notin DOMAIN m1.meom
             THEN Outcome(m1, "KeyError", <<>>)
             ELSE Outcome([m1 EXCEPT !.meom = MapDel(m1.meom, id2)], "ok", <<>>)

\* First loop of both sweeps, over the snapshot list(mapper.items()): the
\* protocol is asked about the entry at hand and the identifier is appended
\* when it answers True; `yes` is the set of orders for which it does.
RECURSIVE collect_loop(_, _, _, _)
collect_loop(snapshot, yes, asked, ids) ==
  IF snapshot = <<>>
    THEN [asked |-> asked, ids |-> ids]
    ELSE LET id == Head(snapshot)
         IN  collect_loop(Tail(snapshot), yes, Append(asked, id),
                          IF id \in yes THEN Append(ids, id) ELSE ids)

collect(snapshot, yes) == collect_loop(snapshot, yes, <<>>, <<>>)

\* Second loop of solve_conditional_orders_triggering.
RECURSIVE promote_loop(_, _)
promote_loop(m, ids) ==
  IF ids = <<>>
    THEN Outcome(m, "ok", <<>>)
    ELSE LET id == Head(ids)
         IN  IF id \notin Range(m.com) THEN Outcome(m, "KeyError", <<>>)
             ELSE LET r1 == remove_from_conditional_order_mapper(m, id)
                  IN  IF r1.result # "ok" THEN r1
                      ELSE LET r2 == add_to_order_mapper(r1.m, id)
                           IN  IF r2.result # "ok" THEN r2
                               ELSE promote_loop(r2.m, Tail(ids))

solve_conditional_orders_triggering(m, yes) ==
  LET c             == collect(m.com, yes)
      triggered_ids == c.ids
      r             == promote_loop(m, triggered_ids)
  IN  [m      |-> r.m,
       result |-> r.result,
       ret    |-> IF r.result = "ok" THEN triggered_ids ELSE <<>>,
       asked  |-> c.asked]

\* Second loop of solve_orders_execution.
RECURSIVE execute_loop(_, _)
execute_loop(m, ids) ==
  IF ids = <<>>
    THEN Outcome(m, "ok", <<>>)
    ELSE LET id == Head(ids)
         IN  IF id \notin Range(m.om) THEN Outcome(m, "KeyError", <<>>)
             ELSE LET r == remove_from_order_mapper(m, id)
                  IN  IF r.result # "ok" THEN r
                      ELSE execute_loop(r.m, Tail(ids))

\* A sweep that deletes from the mapping it is scanning: after a deletion the
\* scan moves on by position and so passes over the next entry.
RECURSIVE scan_and_delete(_, _, _, _, _)
scan_and_delete(m, i, yes, asked, ids) ==
  IF i > Len(m.om)
    THEN [m |-> m, result |-> "ok", ret |-> ids, asked |-> asked]
    ELSE LET id == m.om[i]
         IN  IF id \in yes
               THEN scan_and_delete([m EXCEPT !.om = DictDel(m.om, id)], i + 1,
                                    yes, Append(asked, id), Append(ids, id))
               ELSE scan_and_delete(m, i + 1, yes, Append(asked, id), ids)

solve_orders_execution_skipping(m, yes) ==
  scan_and_delete(m, 1, yes, <<>>, <<>>)

solve_orders_execution(m, yes) ==
  LET c            == collect(m.om, yes)
      executed_ids == c.ids
      r            == execute_loop(m, executed_ids)
  IN  [m      |-> r.m,
       result |-> r.result,
       ret    |-> IF r.result = "ok" THEN executed_ids ELSE <<>>,
       asked  |-> c.asked]

\* generate_tp_sl_orders(order): `heap` is the order objects that exist, an
\* object's identifier being its place in it, so that an object made by the
\* call gets an identifier no other object has (uuid4).  The tuple returned is
\* <<tp_order, sl_order>>, each None or the identifier of the object made.
\* When add_mutually_exclusive_relationship raises, the exception leaves the
\* method, nothing is returned and the objects made are dropped.
generate_tp_sl_orders(m, heap, id) ==
  LET order    == heap[id]
      heap1    == IF order.tp_price # None
                    THEN Append(heap, LimitOrder(order.size, order.side,
                                                 order.tp_price, TRUE))
                    ELSE heap
      tp_order == IF order.tp_price # None THEN Some(Len(heap1)) ELSE None
      heap2    == IF order.sl_price # None
                    THEN Append(heap1, LimitOrder(order.size, order.side,
                                                  order.sl_price, TRUE))
                    ELSE heap1
      sl_order == IF order.sl_price # None THEN Some(Len(heap2)) ELSE None
      r        == IF tp_order # None /\ sl_order # None
                    THEN add_mutually_exclusive_relationship(m, tp_order[1],
                                                             sl_order[1])
                    ELSE Outcome(m, "ok", <<>>)
  IN  IF r.result # "ok"
        THEN [m |-> r.m, result |-> r.result, ret |-> <<>>, asked |-> <<>>,
              heap |-> heap]
        ELSE [m |-> r.m, result |-> "ok", ret |-> <<tp_order, sl_order>>,
              asked |-> <<>>, heap |-> heap2]

(***************************************************************************)
(* The caller: constructs the orders, may call their setters, constructs   *)
(* the manager from some of them, then calls the manager's methods and the *)
(* orders' setters in any order.                                           *)
(***************************************************************************)

\* The states an order object can be in when the manager is constructed: as
\* its constructor left it, or after setter calls on it.
AfterSetter(S) ==
  S \cup {trigger_price_setter(o, v).order : o \in S, v \in DecimalArgs}
    \cup {is_conditional_setter(o, b).order : o \in S, b \in BOOLEAN}

\* The manager reads is_conditional only, which depends on trigger_price
\* alone: the other constructor arguments are held fixed here.
OrderStates ==
  AfterSetter(AfterSetter(
    {OrderBase(1, "BUY/LONG", Some(1), None, None, t, FALSE) : t \in CtorArgs}))

\* initial_orders: lists of distinct orders (None is the empty list, line 334).
InitialOrders ==
  {s \in UNION {[1..n -> Ids] : n \in 0..NumOrders} :
     \A i, j \in 1..Len(s) : i # j => s[i] # s[j]}

\* Nothing is remembered about the orders' past.
NoHistory == [triggered |-> FALSE, objects |-> 0]

\* Trader.run has not been called.
NoRun == [bar |-> 0]

\* The record of a call: what was called with what, what the protocol
\* answered and was asked, the result, and the manager before the call.
Call(op, args, value, yes, r, pre) ==
  [op |-> op, args |-> args, value |-> value, yes |-> yes, asked |-> r.asked,
   result |-> r.result, ret |-> r.ret, pre |-> pre]

Install(m) ==
  /\ order_mapper' = m.om
  /\ conditional_order_mapper' = m.com
  /\ mutually_exclusive_order_mapper' = m.meom

\* A manager method call: its effect on the three mappings and its record.
Method(op, args, yes, r) ==
  /\ nops < MaxOps
  /\ nops' = nops + 1
  /\ Install(r.m)
  /\ last' = Call(op, args, None, yes, r, Manager)
  /\ UNCHANGED <<orders, hist, trader>>

\* A setter call on an order object: the manager is not involved.
Setter(op, id, value, r) ==
  /\ nops < MaxOps
  /\ nops' = nops + 1
  /\ orders' = [orders EXCEPT ![id] = r.order]
  /\ last' = Call(op, <<id>>, value, {}, Outcome(Manager, r.result, <<>>),
                  Manager)
  /\ UNCHANGED <<order_mapper, conditional_order_mapper,
                 mutually_exclusive_order_mapper, hist,
                 trader>>

\* The state in which OrderManager(initial_orders) returns.
Init ==
  /\ orders \in [Ids -> OrderStates]
  /\ \E initial_orders \in InitialOrders :
       LET r == init_loop(EmptyManager, initial_orders)
       IN  /\ r.result = "ok"
           /\ order_mapper = r.m.om
           /\ conditional_order_mapper = r.m.com
           /\ mutually_exclusive_order_mapper = r.m.meom
           /\ last = Call("__init__", initial_orders, None, {}, r,
                          EmptyManager)
  /\ nops = 0
  /\ hist = NoHistory
  /\ trader = NoRun

SetTriggerPrice ==
  \E id \in Ids, value \in DecimalArgs :
    Setter("trigger_price", id, value,
           trigger_price_setter(orders[id], value))

SetIsConditional ==
  \E id \in Ids, value \in BOOLEAN :
    Setter("is_conditional", id, None,
           is_conditional_setter(orders[id], value))

AddToOrderMapper ==
  \E id \in Ids :
    Method("add_to_order_mapper", <<id>>, {},
           add_to_order_mapper(Manager, id))

AddToConditionalOrderMapper ==
  \E id \in Ids :
    Method("add_to_conditional_order_mapper", <<id>>, {},
           add_to_conditional_order_mapper(Manager, id))

RemoveFromOrderMapper ==
  \E id \in Ids :
    Method("remove_from_order_mapper", <<id>>, {},
           remove_from_order_mapper(Manager, id))

RemoveFromConditionalOrderMapper ==
  \E id \in Ids :
    Method("remove_from_conditional_order_mapper", <<id>>, {},
           remove_from_conditional_order_mapper(Manager, id))

AddMutuallyExclusiveRelationship ==
  \E id1 \in Ids, id2 \in Ids :
    Method("add_mutually_exclusive_relationship", <<id1, id2>>, {},
           add_mutually_exclusive_relationship(Manager, id1, id2))

RemoveMutuallyExclusiveRelationship ==
  \E id1 \in Ids, id2 \in Ids :
    Method("remove_mutually_exclusive_relationship", <<id1, id2>>, {},
           remove_mutually_exclusive_relationship(Manager, id1, id2))

\* The protocol's check_triggering is a pure predicate of the order: `yes` is
\* the set of conditional orders it accepts; it is asked about every entry of
\* the snapshot, in the snapshot's order.
SolveConditionalOrdersTriggering ==
  \E yes \in SUBSET Range(conditional_order_mapper) :
    Method("solve_conditional_orders_triggering", <<>>, yes,
           solve_conditional_orders_triggering(Manager, yes))

SolveOrdersExecution ==
  \E yes \in SUBSET Range(order_mapper) :
    Method("solve_orders_execution", <<>>, yes,
           solve_orders_execution(Manager, yes))

Next ==
  \/ SetTriggerPrice
  \/ SetIsConditional
  \/ AddToOrderMapper
  \/ AddToConditionalOrderMapper
  \/ RemoveFromOrderMapper
  \/ RemoveFromConditionalOrderMapper
  \/ AddMutuallyExclusiveRelationship
  \/ RemoveMutuallyExclusiveRelationship
  \/ SolveConditionalOrdersTriggering
  \/ SolveOrdersExecution

Spec == Init /\ [][Next]_vars

(***************************************************************************)
(* Properties                                                              *)
(***************************************************************************)

Pending == Range(order_mapper)
Conditional == Range(conditional_order_mapper)
Linked == DOMAIN mutually_exclusive_order_mapper
FiledBefore == Range(last.pre.om) \cup Range(last.pre.com)
MappingsUnchanged ==
  /\ order_mapper = last.pre.om
  /\ conditional_order_mapper = last.pre.com
Filing == {"add_to_order_mapper", "add_to_conditional_order_mapper"}

Removals == {"remove_from_order_mapper", "remove_from_conditional_order_mapper"}

C13_RemoveExactlyOne ==
  /\ last.op = "remove_from_order_mapper" =>
       IF last.args[1] \in Range(last.pre.om)
         THEN /\ last.result = "ok"
              /\ order_mapper =
                   SelectSeq(last.pre.om, LAMBDA x : x # last.args[1])
              /\ conditional_order_mapper = last.pre.com
         ELSE /\ last.result = "KeyError"
              /\ Manager = last.pre
  /\ last.op = "remove_from_conditional_order_mapper" =>
       IF last.args[1] \in Range(last.pre.com)
         THEN /\ last.result = "ok"
              /\ conditional_order_mapper =
                   SelectSeq(last.pre.com, LAMBDA x : x # last.args[1])
              /\ order_mapper = last.pre.om
         ELSE /\ last.result = "KeyError"
              /\ Manager = last.pre

\* C13 witness: a successful removal that left another filed order behind.
C13_Witness ==
  /\ last.op \in Removals
  /\ last.result = "ok"
  /\ Pending \cup Conditional # {}

(***************************************************************************)
(* Bracket orders: the caller holds one parent order, builds a manager     *)
(* with or without it, and then derives bracket orders from the orders it  *)
(* holds and files orders, in any order.                                   *)
(***************************************************************************)

\* Sizes and bracket prices of the parent order.
ParentSizes == {1, 2}
BracketArgs == {None, Some(1), Some(2)}
Sides == {"BUY/LONG", "SELL/SHORT"}

BracketInit ==
  /\ \E size \in ParentSizes, side \in Sides,
        tp_price \in BracketArgs, sl_price \in BracketArgs :
       orders = <<OrderBase(size, side, Some(1), tp_price, sl_price, None,
                            FALSE)>>
  /\ \E initial_orders \in {<<>>, <<1>>} :
       LET r == init_loop(EmptyManager, initial_orders)
       IN  /\ r.result = "ok"
           /\ order_mapper = r.m.om
           /\ conditional_order_mapper = r.m.com
           /\ mutually_exclusive_order_mapper = r.m.meom
           /\ last = Call("__init__", initial_orders, None, {}, r,
                          EmptyManager)
  /\ nops = 0
  /\ hist = [triggered |-> FALSE, objects |-> 1]
  /\ trader = NoRun

GenerateTpSlOrders ==
  \E id \in DOMAIN orders :
    LET r == generate_tp_sl_orders(Manager, orders, id)
    IN  /\ nops < MaxOps
        /\ nops' = nops + 1
        /\ Install(r.m)
        /\ orders' = r.heap
        /\ last' = Call("generate_tp_sl_orders", <<id>>, None, {}, r, Manager)
        /\ hist' = [hist EXCEPT !.objects = Len(orders)]
        /\ UNCHANGED trader

FileOrder ==
  \E id \in DOMAIN orders :
    LET r == add_to_order_mapper(Manager, id)
    IN  /\ nops < MaxOps
        /\ nops' = nops + 1
        /\ Install(r.m)
        /\ last' = Call("add_to_order_mapper", <<id>>, None, {}, r, Manager)
        /\ hist' = [hist EXCEPT !.objects = Len(orders)]
        /\ UNCHANGED trader
        /\ UNCHANGED orders

BracketNext ==
  \/ GenerateTpSlOrders
  \/ FileOrder

BracketSpec == BracketInit /\ [][BracketNext]_vars

\* The call at hand is generate_tp_sl_orders on the order `Parent`.
Derived == last.op = "generate_tp_sl_orders"
Parent == orders[last.args[1]]

\* C14: when generate_tp_sl_orders is called for an order that has both a
\* take-profit and a stop-loss price, it returns both derived orders and, on
\* return, the OCO adjacency links the two derived orders to each other.
C14_BracketPairLinked ==
  (Derived /\ Parent.tp_price # None /\ Parent.sl_price # None) =>
    /\ last.result = "ok"
    /\ Len(last.ret) = 2
    /\ last.ret[1] # None
    /\ last.ret[2] # None
    /\ last.ret[1][1] \in Linked
    /\ last.ret[2][1] \in Linked
    /\ mutually_exclusive_order_mapper[last.ret[1][1]] = last.ret[2][1]
    /\ mutually_exclusive_order_mapper[last.ret[2][1]] = last.ret[1][1]

\* The order the call made for a bracket price: a new object, reduce-only,
\* with the parent's size and side and the bracket price as its price.
IsBracketOrder(made, bracket_price) ==
  /\ made # None
  /\ made[1] > hist.objects
  /\ made[1] \in DOMAIN orders
  /\ orders[made[1]] = LimitOrder(Parent.size, Parent.side, bracket_price, TRUE)

\* C15: generate_tp_sl_orders produces one new reduce-only Limit order per
\* present bracket price (none when neither is set, one when only one is set),
\* each with a fresh identifier, the parent's side and size and the bracket
\* price as its price, and it files nothing: the pending and conditional
\* mappings are unchanged by the call.
C15_BracketOrdersDerived ==
  Derived =>
    /\ last.result = "ok"
    /\ Len(last.ret) = 2
    /\ IF Parent.tp_price = None THEN last.ret[1] = None
        ELSE IsBracketOrder(last.ret[1], Parent.tp_price)
    /\ IF Parent.sl_price = None THEN last.ret[2] = None
        ELSE IsBracketOrder(last.ret[2], Parent.sl_price)
    /\ (last.ret[1] # None /\ last.ret[2] # None) => last.ret[1] # last.ret[2]
    /\ Len(orders) = hist.objects
                      + (IF Parent.tp_price = None THEN 0 ELSE 1)
                      + (IF Parent.sl_price = None THEN 0 ELSE 1)
    /\ MappingsUnchanged

(***************************************************************************)
(* One order: the caller constructs an order and an empty manager, and     *)
(* then assigns the order's attributes and files it, in any order.         *)
(***************************************************************************)

\* Arguments of the constructor and values assigned to the attributes: a
\* non-positive and a positive size, the two sides and a string that is
\* neither, and for the optional prices None, a non-positive and a positive
\* price.
SizeArgs == {0, 1}
SideArgs == Sides \cup {"HOLD"}
PriceArgs == {Some(0), Some(1)}

OrderInit ==
  /\ \E size \in SizeArgs, side \in SideArgs, price \in PriceArgs,
        tp_price \in DecimalArgs, sl_price \in DecimalArgs,
        trigger_price \in DecimalArgs, reduce_only \in BOOLEAN :
       /\ orders = <<OrderBase(size, side, price, tp_price, sl_price,
                               trigger_price, reduce_only)>>
       /\ hist = [triggered |-> trigger_price # None, objects |-> 1]
       /\ trader = NoRun
  /\ order_mapper = <<>>
  /\ conditional_order_mapper = <<>>
  /\ mutually_exclusive_order_mapper = EmptyMap
  /\ last = Call("__init__", <<>>, None, {}, Outcome(EmptyManager, "ok", <<>>),
                 EmptyManager)
  /\ nops = 0

\* An assignment to an attribute of the order; `sets_trigger` says that it
\* is an assignment of a price to trigger_price.
Attribute(op, value, r, sets_trigger) ==
  /\ nops < MaxOps
  /\ nops' = nops + 1
  /\ orders' = [orders EXCEPT ![1] = r.order]
  /\ last' = Call(op, <<1>>, value, {}, Outcome(Manager, r.result, <<>>),
                  Manager)
  /\ hist' = [hist EXCEPT
                !.triggered = @ \/ (sets_trigger /\ r.result = "ok")]
  /\ UNCHANGED trader
  /\ UNCHANGED <<order_mapper, conditional_order_mapper,
                 mutually_exclusive_order_mapper>>

AssignSize ==
  \E value \in SizeArgs :
    Attribute("size", Some(value), size_setter(orders[1], value), FALSE)

AssignSide ==
  \E value \in SideArgs :
    Attribute("side", Some(value), side_setter(orders[1], value), FALSE)

AssignPrice ==
  \E value \in DecimalArgs :
    Attribute("price", value, price_setter(orders[1], value), FALSE)

AssignTpPrice ==
  \E value \in DecimalArgs :
    Attribute("tp_price", value, tp_price_setter(orders[1], value), FALSE)

AssignSlPrice ==
  \E value \in DecimalArgs :
    Attribute("sl_price", value, sl_price_setter(orders[1], value), FALSE)

AssignReduceOnly ==
  \E value \in BOOLEAN :
    Attribute("reduce_only", Some(value),
              reduce_only_setter(orders[1], value), FALSE)

AssignTriggerPrice ==
  \E value \in DecimalArgs :
    Attribute("trigger_price", value,
              trigger_price_setter(orders[1], value), value # None)

AssignIsConditional ==
  \E value \in BOOLEAN :
    Attribute("is_conditional", Some(value),
              is_conditional_setter(orders[1], value), FALSE)

\* add_to_order_mapper(order) or add_to_conditional_order_mapper(order)
File ==
  \E r \in {[op |-> "add_to_order_mapper",
              r  |-> add_to_order_mapper(Manager, 1)],
             [op |-> "add_to_conditional_order_mapper",
              r  |-> add_to_conditional_order_mapper(Manager, 1)]} :
    /\ nops < MaxOps
    /\ nops' = nops + 1
    /\ Install(r.r.m)
    /\ last' = Call(r.op, <<1>>, None, {}, r.r, Manager)
    /\ UNCHANGED <<orders, hist, trader>>

OrderNext ==
  \/ AssignSize
  \/ AssignSide
  \/ AssignPrice
  \/ AssignTpPrice
  \/ AssignSlPrice
  \/ AssignReduceOnly
  \/ AssignTriggerPrice
  \/ AssignIsConditional
  \/ File

OrderSpec == OrderInit /\ [][OrderNext]_vars

Positive(price) == price = None \/ price[1] > 0

\* C16: constructing an order with size <= 0, a side other than the two
\* allowed values, or a present price <= 0 fails at construction, so in every
\* reachable state every order held in the pending or the conditional mapping
\* has size > 0 and all its present prices > 0.
C16_FiledOrdersValidated ==
  \A id \in Pending \cup Conditional :
    /\ orders[id].size > 0
    /\ Positive(orders[id].price)
    /\ Positive(orders[id].tp_price)
    /\ Positive(orders[id].sl_price)
    /\ Positive(orders[id].trigger_price)

\* C17: once a trigger price has been set to a value other than None, at
\* construction or by the trigger_price setter, is_conditional is true in
\* that state and in every later state, whatever is assigned to
\* trigger_price or to is_conditional afterwards.
C17_ConditionalIsPermanent == hist.triggered => orders[1].is_conditional

(***************************************************************************)
(* Order predicates of src/goodmetrics/order.py: the dataclasses           *)
(* MarketOrder, LimitOrder and StopOrder with their is_valid and           *)
(* is_triggered.  Prices are floats in the source and only ever compared:  *)
(* they are integers here.                                                 *)
(***************************************************************************)

\* Target, reference, high and low prices are 1..MaxPrice.
MaxPrice == 4
Prices == 1..MaxPrice
LegacySides == {"Buy/Long", "Sell/Short"}

\* What a call gives: the value returned, or the exception raised.
Returns(value) == [result |-> "ok", ret |-> <<value>>]
Raises(exception) == [result |-> exception, ret |-> <<>>]

MarketOrder_is_valid(self, price) == TRUE

MarketOrder_is_triggered(self, high, low) == Returns(TRUE)

\* The validity of a limit order taken as reached when the reference price
\* is on the favourable side of the target.
LimitOrder_is_valid_in_favour(self, price) ==
  IF self.side = "Buy/Long"
    THEN price <= self.target_price
    ELSE price >= self.target_price

LimitOrder_is_valid(self, price) ==
  IF self.side = "Buy/Long"
    THEN price >= self.target_price
    ELSE price <= self.target_price

\* The else branch reads self.target_pric, an attribute the dataclass does
\* not have: AttributeError.
LimitOrder_is_triggered(self, high, low) ==
  IF self.side = "Buy/Long"
    THEN Returns(low <= self.target_price)
    ELSE Raises("AttributeError")

\* The validity of a stop order computed as that of a limit order.
StopOrder_is_valid_as_limit(self, price) ==
  IF self.side = "Buy/Long"
    THEN price >= self.target_price
    ELSE price <= self.target_price

StopOrder_is_valid(self, price) ==
  IF self.side = "Buy/Long"
    THEN price <= self.target_price
    ELSE price >= self.target_price

\* The else branch reads self.target_pric as well.
StopOrder_is_triggered(self, high, low) ==
  IF self.side = "Buy/Long"
    THEN Returns(low >= self.target_price)
    ELSE Raises("AttributeError")

\* The caller holds a limit, a stop and a market order of one side, the
\* first two with one target (__post_init__ accepts a side of the two and a
\* positive target), and no manager.
PredicateInit ==
  /\ \E side \in LegacySides, target_price \in Prices :
       orders = <<[side |-> side, target_price |-> target_price],
                  [side |-> side, target_price |-> target_price],
                  [side |-> side]>>
  /\ order_mapper = <<>>
  /\ conditional_order_mapper = <<>>
  /\ mutually_exclusive_order_mapper = EmptyMap
  /\ last = Call("__post_init__", <<>>, None, {},
                 Outcome(EmptyManager, "ok", <<>>), EmptyManager)
  /\ nops = 0
  /\ hist = NoHistory
  /\ trader = NoRun

\* A call put to each of the three orders in turn, each call on its own;
\* `ret` is what the limit, the stop and the market order gave.
Asked(op, args, ret) ==
  /\ last' = Call(op, args, None, {}, Outcome(EmptyManager, "ok", ret),
                  EmptyManager)
  /\ UNCHANGED <<orders, order_mapper, conditional_order_mapper,
                 mutually_exclusive_order_mapper, nops, hist, trader>>

\* order.is_valid(price)
IsValid ==
  \E price \in Prices :
    Asked("is_valid", <<price>>,
          <<LimitOrder_is_valid(orders[1], price),
            StopOrder_is_valid(orders[2], price),
            MarketOrder_is_valid(orders[3], price)>>)

\* order.is_triggered(high, low), for the high and the low of a bar
IsTriggered ==
  \E high \in Prices, low \in Prices :
    /\ low <= high
    /\ Asked("is_triggered", <<high, low>>,
             <<LimitOrder_is_triggered(orders[1], high, low),
               StopOrder_is_triggered(orders[2], high, low),
               MarketOrder_is_triggered(orders[3], high, low)>>)

PredicateNext ==
  \/ IsValid
  \/ IsTriggered

PredicateSpec == PredicateInit /\ [][PredicateNext]_vars

\* The side and the target the limit and the stop order share, and the
\* arguments of the call at hand.
Long == orders[1].side = "Buy/Long"
Target == orders[1].target_price
Reference == last.args[1]
High == last.args[1]
Low == last.args[2]

\* C18 as stated: for every side, target and reference price p, p equal to
\* the target included, LimitOrder.is_valid(p) is the negation of
\* StopOrder.is_valid(p) for a limit and a stop order of one side and target.
C18_ValidityMirroredEverywhere ==
  last.op = "is_valid" => last.ret[1] = ~last.ret[2]

\* C18: for every side, target and reference price p other than the target,
\* LimitOrder.is_valid(p) is the negation of StopOrder.is_valid(p) for a
\* limit and a stop order of one side and target; at p equal to the target
\* both are valid.
C18_ValidityMirroredOffTarget ==
  last.op = "is_valid" =>
    IF Reference = Target
      THEN last.ret[1] /\ last.ret[2]
      ELSE last.ret[1] = ~last.ret[2]

C18_Witness ==
  /\ last.op = "is_valid"
  /\ Reference # Target
  /\ last.ret[1]
  /\ ~last.ret[2]

C20_TriggeredBySide ==
  last.op = "is_triggered" =>
    /\ last.ret[1] = Returns(IF Long THEN Low <= Target ELSE High >= Target)
    /\ last.ret[2] = Returns(IF Long THEN High >= Target ELSE Low <= Target)
    /\ last.ret[3].result = "ok"
    /\ last.ret[3].ret[1] \in BOOLEAN

(***************************************************************************)
(* Positions of src/src/goodmetrics/core/position.py.                      *)
(*                                                                         *)
(* A Decimal is the fraction n/d with d a power of ten, as small as the    *)
(* value allows, so that two Decimals are == exactly when the records are  *)
(* equal.  Every arithmetic operation rounds its exact result to the       *)
(* precision of the context, half to even, as the decimal module does.     *)
(* The default context has 28 significant digits; the model keeps Prec of  *)
(* them, which keeps the coefficients within the integers of the model     *)
(* checker and rounds the same quotients (1/3, 1/11) at a shorter length.  *)
(* Sizes and prices are not negative here, so no value below is.           *)
(***************************************************************************)

\* Significant digits of the arithmetic context.
Prec == 2

RECURSIVE Pow10(_)
Pow10(k) == IF k = 0 THEN 1 ELSE 10 * Pow10(k - 1)

\* Decimal(i) for an integer i
Dec(i) == [n |-> i, d |-> 1]

RECURSIVE Normal(_, _)
Normal(n, d) ==
  IF d > 1 /\ n % 10 = 0 THEN Normal(n \div 10, d \div 10)
  ELSE [n |-> n, d |-> d]

\* p/q rounded to an integer, half to even
HalfEven(p, q) ==
  LET f == p \div q
      r == p % q
  IN  IF 2 * r > q THEN f + 1
      ELSE IF 2 * r < q THEN f
      ELSE IF f % 2 = 0 THEN f ELSE f + 1

\* The power of ten by which p/q has to be multiplied, or divided, to have
\* Prec digits before the point.
RECURSIVE ScaleUp(_, _, _)
ScaleUp(p, q, d) ==
  IF p * d >= Pow10(Prec - 1) * q THEN d ELSE ScaleUp(p, q, d * 10)

RECURSIVE ScaleDown(_, _, _)
ScaleDown(p, q, m) ==
  IF p < Pow10(Prec) * q * m THEN m ELSE ScaleDown(p, q, m * 10)

\* p/q rounded to Prec significant digits
Round(p, q) ==
  IF p = 0 THEN Dec(0)
  ELSE LET m == ScaleDown(p, q, 1)
       IN  IF m > 1 THEN Dec(HalfEven(p, q * m) * m)
           ELSE LET d == ScaleUp(p, q, 1)
                IN  Normal(HalfEven(p * d, q), d)

Larger(x, y) == IF x >= y THEN x ELSE y

\* x + y, x - y, x * y and x / y of Decimals; x / y is asked for y # 0 only.
DecAdd(x, y) ==
  LET d == Larger(x.d, y.d)
  IN  Round(x.n * (d \div x.d) + y.n * (d \div y.d), d)

DecSub(x, y) ==
  LET d == Larger(x.d, y.d)
  IN  Round(x.n * (d \div x.d) - y.n * (d \div y.d), d)

DecMul(x, y) == Round(x.n * y.n, x.d * y.d)

DecDiv(x, y) == Round(x.n * y.d, x.d * y.n)

\* Position.__init__: stores its arguments.
Position(side, size, price) == [side |-> side, size |-> size, price |-> price]

\* Position.equals_to(other), strictly False
equals_to(self, other) ==
  /\ self.size = other.size
  /\ self.side = other.side
  /\ self.price = other.price

is_empty(self) == self.size = Dec(0)

\* Position.add with the check of the sides left out.
add_any_side(self, other) ==
  LET total == DecAdd(self.size, other.size)
  IN  IF total = Dec(0)
        THEN Raises(IF self.size = Dec(0) THEN "InvalidOperation"
                    ELSE "DivisionByZero")
        ELSE LET self_side_weight == DecDiv(self.size, total)
             IN  Returns(Position(
                   self.side,
                   total,
                   DecAdd(DecMul(self_side_weight, self.price),
                          DecMul(DecSub(Dec(1), self_side_weight),
                                 other.price))))

\* Position.add(other): self.size + other.size is evaluated again for the
\* size of the result, with the same value.  Dividing by a zero sum raises
\* decimal.InvalidOperation when self.size is zero as well (0/0), and
\* decimal.DivisionByZero otherwise; both are ArithmeticErrors.
add(self, other) ==
  IF self.side # other.side THEN Raises("ValueError")
  ELSE LET total == DecAdd(self.size, other.size)
       IN  IF total = Dec(0)
             THEN Raises(IF self.size = Dec(0) THEN "InvalidOperation"
                         ELSE "DivisionByZero")
             ELSE LET self_side_weight == DecDiv(self.size, total)
                  IN  Returns(Position(
                        self.side,
                        total,
                        DecAdd(DecMul(self_side_weight, self.price),
                               DecMul(DecSub(Dec(1), self_side_weight),
                                      other.price))))

\* Sizes and prices of the positions the caller makes: the constructor
\* takes any Decimal, 0 being the default of both.
PositionSizes == {0, 1, 2, 10}
PositionPrices == 0..MaxPrice

Positions ==
  {Position(side, Dec(size), Dec(price)) :
     side \in Sides, size \in PositionSizes, price \in PositionPrices}

\* The caller holds two positions.
PositionInit ==
  /\ orders \in [1..2 -> Positions]
  /\ order_mapper = <<>>
  /\ conditional_order_mapper = <<>>
  /\ mutually_exclusive_order_mapper = EmptyMap
  /\ last = Call("__init__", <<>>, None, {},
                 Outcome(EmptyManager, "ok", <<>>), EmptyManager)
  /\ nops = 0
  /\ hist = NoHistory
  /\ trader = NoRun

\* self.add(other) and other.add(self) for two of the positions held: `value`
\* is the two positions as they were before the calls, `ret` what the two
\* calls gave.  Neither call assigns to an attribute of self or other.
Add ==
  \E self \in DOMAIN orders, other \in DOMAIN orders :
    /\ last' = Call("add", <<self, other>>, <<orders[self], orders[other]>>,
                    {},
                    Outcome(EmptyManager, "ok",
                            <<add(orders[self], orders[other]),
                              add(orders[other], orders[self])>>),
                    EmptyManager)
    /\ UNCHANGED <<orders, order_mapper, conditional_order_mapper,
                   mutually_exclusive_order_mapper, nops, hist, trader>>

PositionNext == Add

PositionSpec == PositionInit /\ [][PositionNext]_vars

\* The call at hand is a.add(b), and what it and b.add(a) gave.
Merged == last.op = "add"
MergeA == last.value[1]
MergeB == last.value[2]
MergeAB == last.ret[1]
MergeBA == last.ret[2]
InputsUnchanged ==
  /\ orders[last.args[1]] = MergeA
  /\ orders[last.args[2]] = MergeB

\* C21: for two same-side positions a and b with a.size + b.size > 0,
\* a.add(b) returns a new position of that side whose size is
\* a.size + b.size and whose price p satisfies
\* p * (a.size + b.size) = a.size * a.price + b.size * b.price, and a and b
\* are left unchanged.  (Sizes and prices of a and b are whole numbers here,
\* so the equation is one between integers once multiplied by p's d.)
C21_MergeIsWeightedAverage ==
  (Merged /\ MergeA.side = MergeB.side /\ MergeA.size.n + MergeB.size.n > 0) =>
    /\ MergeAB.result = "ok"
    /\ MergeAB.ret[1].side = MergeA.side
    /\ MergeAB.ret[1].size = Dec(MergeA.size.n + MergeB.size.n)
    /\ MergeAB.ret[1].price.n * (MergeA.size.n + MergeB.size.n)
         = (MergeA.size.n * MergeA.price.n + MergeB.size.n * MergeB.price.n)
           * MergeAB.ret[1].price.d
    /\ InputsUnchanged

\* C22: for all same-side positions a and b, a.add(b) and b.add(a) have the
\* same side, size and price: equals_to holds between them.
C22_MergeCommutes ==
  (Merged /\ MergeA.side = MergeB.side
          /\ MergeAB.result = "ok" /\ MergeBA.result = "ok") =>
    equals_to(MergeAB.ret[1], MergeBA.ret[1])

\* C23: merging two empty positions of one side yields an empty position
\* with price 0 and raises no error.
C23_MergeOfEmpties ==
  (Merged /\ MergeA.side = MergeB.side
          /\ is_empty(MergeA) /\ is_empty(MergeB)) =>
    /\ MergeAB.result = "ok"
    /\ is_empty(MergeAB.ret[1])
    /\ MergeAB.ret[1].price = Dec(0)

\* C24: a.add(b) for positions of different sides fails with ValueError,
\* returns no position and leaves a and b unchanged.
C24_MergeNeedsOneSide ==
  (Merged /\ MergeA.side # MergeB.side) =>
    /\ MergeAB.result = "ValueError"
    /\ MergeAB.ret = <<>>
    /\ InputsUnchanged

C24_Witness ==
  /\ Merged
  /\ MergeA.side # MergeB.side
  /\ ~is_empty(MergeA)
  /\ MergeAB.result = "ValueError"

\* The assignments the setters have to refuse: a size or a price that is not
\* positive, a side that is neither of the two.
Refused(call) ==
  \/ call.op = "size" /\ call.value[1] <= 0
  \/ call.op = "side" /\ call.value[1] \notin Sides
  \/ /\ call.op \in {"price", "tp_price", "sl_price", "trigger_price"}
     /\ call.value # None
     /\ call.value[1] <= 0

\* C27: a setter call on an order (size, price, tp_price, sl_price,
\* trigger_price) with a non-positive value, or side with a value outside the
\* two allowed sides, raises an error and leaves every field of the order
\* unchanged, is_conditional included (the identifier is the order's place in
\* `orders` and has no setter); and no OrderManager operation changes any
\* field of any order.
C27_RefusedAssignmentChangesNothing ==
  [][/\ Refused(last') => (last'.result = "ValueError" /\ orders' = orders)
     /\ last'.op \in Filing => orders' = orders]_vars

C27_Witness ==
  /\ Refused(last)
  /\ last.op = "size"
  /\ last.result = "ValueError"
  /\ orders[1].size > 0

(***************************************************************************)
(* Trader.run of src/goodmetrics/trader.py: one step per bar of the        *)
(* OHLCV data.                                                             *)
(*                                                                         *)
(* The plan holds NumOrders order objects, each under one datetime; they   *)
(* differ in a field, so that == between them (the dataclasses' field      *)
(* equality, which list.remove uses) is identity, and their stop_loss and  *)
(* take_profit are None.                                                   *)
(*                                                                         *)
(* What the orders' predicates answer on a bar is an input of the step:    *)
(* `valid` is the set of orders for which is_valid(close) is True and      *)
(* `yes` the set for which is_triggered is True.  The loop calls           *)
(* order.is_triggered(cl) with one argument where the method takes high    *)
(* and low: as written the call raises TypeError, which is the step with   *)
(* `raises` TRUE; the steps with `raises` FALSE are those of the loop      *)
(* with the call answered.                                                 *)
(***************************************************************************)

\* Number of bars of the data.
MaxBars == 3
Bars == 1..MaxBars

\* The members of a set of orders as a list, in the order of the plan.
RECURSIVE Listed(_)
Listed(S) ==
  IF S = {} THEN <<>>
  ELSE LET o == CHOOSE x \in S : \A y \in S : x <= y
       IN  <<o>> \o Listed(S \ {o})

\* self.plan.get(dt, [])
plan_get(dt) == Listed({o \in DOMAIN orders : orders[o].dt = dt})

\* list.remove(x): the first occurrence goes.
RECURSIVE list_remove(_, _)
list_remove(list, x) ==
  IF list = <<>> THEN <<>>
  ELSE IF Head(list) = x THEN Tail(list)
  ELSE <<Head(list)>> \o list_remove(Tail(list), x)

\* The waiting list extended after the orders of the bar have been taken
\* from the plan.
extend_after_plan(waiting_orders, next_before, next_after) ==
  waiting_orders \o next_after

\* waiting_orders.extend(next_orders), first statement of the loop body:
\* next_orders is as the bars before left it.
extend(waiting_orders, next_before, next_after) ==
  waiting_orders \o next_before

\* for order in orders: if order.is_valid(cl): next_orders.append(order)
RECURSIVE plan_loop(_, _, _)
plan_loop(next_orders, todays, valid) ==
  IF todays = <<>> THEN next_orders
  ELSE plan_loop(IF Head(todays) \in valid
                   THEN Append(next_orders, Head(todays))
                   ELSE next_orders,
                 Tail(todays), valid)

\* for order in waiting_orders: the list iterator goes by position in the
\* list as it is when the position is reached; `asked` is the orders
\* is_triggered was called on.
RECURSIVE trigger_loop(_, _, _, _, _, _)
trigger_loop(waiting_orders, open_orders, i, yes, raises, asked) ==
  IF i > Len(waiting_orders)
    THEN [waiting_orders |-> waiting_orders, open_orders |-> open_orders,
          asked |-> asked, result |-> "ok"]
    ELSE LET order == waiting_orders[i]
         IN  IF raises
               THEN [waiting_orders |-> waiting_orders,
                     open_orders |-> open_orders,
                     asked |-> asked \cup {order}, result |-> "TypeError"]
             ELSE IF order \in yes
               THEN trigger_loop(list_remove(waiting_orders, order),
                                 Append(open_orders, order), i + 1, yes,
                                 raises, asked \cup {order})
             ELSE trigger_loop(waiting_orders, open_orders, i + 1, yes,
                               raises, asked \cup {order})

\* The body of the loop for one bar.
loop_body(locals, dt, valid, yes, raises) ==
  LET todays  == plan_get(dt)
      next    == plan_loop(locals.next_orders, todays, valid)
      waiting == extend(locals.waiting_orders, locals.next_orders, next)
      r       == trigger_loop(waiting, locals.open_orders, 1, yes, raises, {})
  IN  [locals   |-> [bar            |-> dt,
                     next_orders    |-> next,
                     waiting_orders |-> r.waiting_orders,
                     open_orders    |-> r.open_orders,
                     result         |-> r.result],
       scanned  |-> waiting,
       asked    |-> r.asked,
       accepted |-> Range(todays) \cap valid,
       result   |-> r.result]

\* Trader.run up to its loop: the plan, and the four empty collections.
TraderInit ==
  /\ orders \in [Ids -> [dt : Bars]]
  /\ trader = [bar |-> 0, next_orders |-> <<>>, waiting_orders |-> <<>>,
               open_orders |-> <<>>, result |-> "ok"]
  /\ hist = [validated |-> [o \in Ids |-> {}], evaluated |-> [o \in Ids |-> {}]]
  /\ order_mapper = <<>>
  /\ conditional_order_mapper = <<>>
  /\ mutually_exclusive_order_mapper = EmptyMap
  /\ last = Call("run", <<>>, None, {}, Outcome(EmptyManager, "ok", <<>>),
                 EmptyManager)
  /\ nops = 0

\* One bar: hist keeps, for every order, the bars on whose close is_valid
\* accepted it and the bars on which is_triggered was called on it.
Bar ==
  /\ trader.result = "ok"
  /\ trader.bar < MaxBars
  /\ \E valid \in SUBSET Ids, yes \in SUBSET Ids, raises \in BOOLEAN :
       LET dt == trader.bar + 1
           r  == loop_body(trader, dt, valid, yes, raises)
       IN  /\ trader' = r.locals
           /\ hist' = [validated |->
                         [o \in Ids |-> hist.validated[o] \cup
                            (IF o \in r.accepted THEN {dt} ELSE {})],
                       evaluated |->
                         [o \in Ids |-> hist.evaluated[o] \cup
                            (IF o \in r.asked THEN {dt} ELSE {})]]
           /\ last' = Call("bar", <<dt>>, r.scanned, yes,
                           Outcome(EmptyManager, r.result, <<>>), EmptyManager)
  /\ UNCHANGED <<orders, order_mapper, conditional_order_mapper,
                 mutually_exclusive_order_mapper, nops>>

TraderNext == Bar

TraderSpec == TraderInit /\ [][TraderNext]_vars

\* C25: no premature firing: an order taken from the plan at bar t is
\* validated with is_valid against the close of bar t only, and
\* is_triggered is first called on it on a bar strictly later than t, never
\* on bar t itself and never on a bar before the one it was validated on.
C25_NoPrematureFiring ==
  \A o \in Ids :
    /\ hist.validated[o] \subseteq {orders[o].dt}
    /\ \A e \in hist.evaluated[o] :
         /\ hist.validated[o] # {}
         /\ \A v \in hist.validated[o] : e > v

C25_Witness ==
  \E o \in Ids :
    /\ hist.validated[o] = {orders[o].dt}
    /\ hist.evaluated[o] # {}

\* How often an order occurs in a list.
Count(list, o) == Cardinality({i \in 1..Len(list) : list[i] = o})

\* C26: on every bar each waiting order whose trigger predicate holds on
\* that bar is moved from waiting to open on that same bar; no waiting order
\* is passed over because another order was removed from the waiting list
\* during the scan.
C26_TriggeredOrdersOpened ==
  last.op = "bar" =>
    \A o \in Range(last.value) \cap last.yes :
      /\ o \in Range(trader.open_orders)
      /\ o \notin Range(trader.waiting_orders)

====
